---- MODULE Spec2Model ----
(***************************************************************************)
(* Bootstrap of the einmal application (src/src/App.tsx): the App          *)
(* component's state, the asynchronous initialize / loadAssets /           *)
(* checkVault / loadSettings / loadImages / loadFonts functions, the       *)
(* external stores they call, and the render gate.                         *)
(*                                                                         *)
(* Every await is a suspension point: an action models one collaborator    *)
(* call settling (resolving or rejecting) together with the synchronous    *)
(* continuation that runs up to the next await.                            *)
(***************************************************************************)
EXTENDS Naturals, Sequences, FiniteSets

\* Number of writes the screens may make to the stores once they are rendered.
MaxExternal == 1

ResetOps == {"deleteVault", "removePassword", "clear"}
Loads == {"checkVault", "loadSettings", "loadImages", "loadFonts"}

PreVault == {"Welcome", "AuthenticationSetup", "Authentication"}
PostVault == {"Home", "Sorting", "BarcodeScanner", "Settings"}

\* useState(null): the value of initialSettings before setInitialSettings.
Null == [null |-> TRUE]

\* What a store's getter returns when it holds nothing.
Absent == "null"

\* The values the secure storage and the async storage can hold.
Credentials == {"secret"}
Preferences == {"true"}

\* JavaScript's Boolean(value) on what the getters return.
Boolean(value) == value \notin {Absent, ""}

VARIABLES
    shouldReset,            \* configuration.shouldReset
    vault,                  \* the vault exists on the device
    password,               \* the password in the secure storage, or Absent
    concealTokens,          \* the concealTokens value in the async storage, or Absent
    enrolled,               \* what LocalAuthentication.isEnrolledAsync answers
    prior,                  \* the stores as they were when the process started
    vaultExists,            \* useState(false)
    initialSettings,        \* useState(null)
    isReady,                \* useState(false)
    splash,                 \* "auto", "held" (auto hide prevented), "hidden"
    globalVault,            \* globalState.vault
    pc,                     \* position of initialize()
    resetPc,                \* the three promises of the first Promise.all
    loadPc,                 \* the four promises of the second Promise.all
    areBiometricsEnrolled,  \* local of loadSettings
    biometricUnlock,        \* local of loadSettings
    trace,                  \* per function, its calls that have resolved, in order
    external                \* writes made by the screens so far

vars == <<shouldReset, vault, password, concealTokens, enrolled, prior,
          vaultExists, initialSettings, isReady, splash, globalVault, pc,
          resetPc, loadPc, areBiometricsEnrolled, biometricUnlock, trace,
          external>>

config == <<shouldReset, enrolled, prior>>
stores == <<vault, password, concealTokens>>
locals == <<areBiometricsEnrolled, biometricUnlock>>

\* The functions of App that await collaborator calls.
Callers == {"loadAssets", "checkVault", "loadSettings", "loadImages",
            "loadFonts"}

\* The call `op` made by the function `by` has resolved with `ret`.
Log(op, by, ret) ==
    [trace EXCEPT ![by] = Append(@, [op |-> op, ret |-> ret])]

----------------------------------------------------------------------------
(* Promise.all: resolves once every promise has resolved, rejects as soon  *)
(* as one of them has rejected; the others keep running.                   *)

\* Mutant: Promise.race, the first promise to resolve resolves the whole.
PromiseRaceResolved(promises) == \E p \in DOMAIN promises : promises[p] = "done"

\* Mutant: Promise.allSettled, a rejected promise counts as settled.
PromiseAllSettled(promises) ==
    \A p \in DOMAIN promises : promises[p] \in {"done", "failed"}

PromiseAllResolved(promises) == \A p \in DOMAIN promises : promises[p] = "done"

PromiseAllRejected(promises) == \E p \in DOMAIN promises : promises[p] = "failed"

----------------------------------------------------------------------------
Init ==
    /\ shouldReset \in BOOLEAN
    /\ vault \in BOOLEAN
    /\ password \in {Absent} \cup Credentials
    /\ concealTokens \in {Absent} \cup Preferences
    /\ enrolled \in BOOLEAN
    /\ prior = [vault |-> vault, password |-> password,
                concealTokens |-> concealTokens]
    /\ vaultExists = FALSE
    /\ initialSettings = Null
    /\ isReady = FALSE
    /\ splash = "auto"
    /\ globalVault = FALSE
    /\ pc = "mount"
    /\ resetPc = [o \in ResetOps |-> "idle"]
    /\ loadPc = [l \in Loads |-> "idle"]
    /\ areBiometricsEnrolled = FALSE
    /\ biometricUnlock = FALSE
    /\ trace = [c \in Callers |-> << >>]
    /\ external = 0

----------------------------------------------------------------------------
(* useEffect(() => { initialize(); }, []) and initialize up to its first   *)
(* await.                                                                  *)
useEffect ==
    /\ pc = "mount"
    /\ pc' = "preventAutoHideAsync"
    /\ UNCHANGED <<config, stores, locals, vaultExists, initialSettings,
                   isReady, splash, globalVault, resetPc, loadPc, trace,
                   external>>

\* The four promises of the second Promise.all, each run to its first await.
StartLoads ==
    [l \in Loads |->
        CASE l = "checkVault" -> "doesVaultExist"
          [] l = "loadSettings" -> "isEnrolledAsync"
          [] l = "loadImages" -> "loadAsync"
          [] l = "loadFonts" -> "loadAsync"]

\* Mutant: the reset directive is not looked at.
loadAssetsWithoutReset ==
    /\ pc' = "loading"
    /\ loadPc' = StartLoads
    /\ UNCHANGED resetPc

\* Mutant: the reset is started but not awaited.
loadAssetsResetNotAwaited ==
    /\ pc' = "loading"
    /\ loadPc' = StartLoads
    /\ resetPc' = IF shouldReset
                  THEN [o \in ResetOps |-> "pending"]
                  ELSE resetPc

\* Mutant: the reset is made whatever the directive says.
loadAssetsAlwaysResets ==
    /\ pc' = "reset"
    /\ resetPc' = [o \in ResetOps |-> "pending"]
    /\ UNCHANGED loadPc

\* loadAssets up to its first await.
loadAssets ==
    IF shouldReset
    THEN /\ pc' = "reset"
         /\ resetPc' = [o \in ResetOps |-> "pending"]
         /\ UNCHANGED loadPc
    ELSE /\ pc' = "loading"
         /\ loadPc' = StartLoads
         /\ UNCHANGED resetPc

\* await SplashScreen.preventAutoHideAsync() resolves; loadAssets() is called.
preventAutoHideResolves ==
    /\ pc = "preventAutoHideAsync"
    /\ splash' = "held"
    /\ loadAssets
    /\ UNCHANGED <<config, stores, locals, vaultExists, initialSettings,
                   isReady, globalVault, trace, external>>

\* await SplashScreen.preventAutoHideAsync() rejects; initialize() rejects.
preventAutoHideRejects ==
    /\ pc = "preventAutoHideAsync"
    /\ pc' = "failed"
    /\ UNCHANGED <<config, stores, locals, vaultExists, initialSettings,
                   isReady, splash, globalVault, resetPc, loadPc, trace,
                   external>>

----------------------------------------------------------------------------
(* The reset: deleteVault(), secureStorage.removePassword(),               *)
(* storage.clear(), dispatched together.                                   *)

deleteVaultResolves ==
    /\ resetPc["deleteVault"] = "pending"
    /\ vault' = FALSE
    /\ resetPc' = [resetPc EXCEPT !["deleteVault"] = "done"]
    /\ trace' = Log("deleteVault", "loadAssets", TRUE)
    /\ UNCHANGED <<config, password, concealTokens, locals, vaultExists,
                   initialSettings, isReady, splash, globalVault, pc, loadPc,
                   external>>

resetRemovePasswordResolves ==
    /\ resetPc["removePassword"] = "pending"
    /\ password' = Absent
    /\ resetPc' = [resetPc EXCEPT !["removePassword"] = "done"]
    /\ trace' = Log("removePassword", "loadAssets", TRUE)
    /\ UNCHANGED <<config, vault, concealTokens, locals, vaultExists,
                   initialSettings, isReady, splash, globalVault, pc, loadPc,
                   external>>

clearResolves ==
    /\ resetPc["clear"] = "pending"
    /\ concealTokens' = Absent
    /\ resetPc' = [resetPc EXCEPT !["clear"] = "done"]
    /\ trace' = Log("clear", "loadAssets", TRUE)
    /\ UNCHANGED <<config, vault, password, locals, vaultExists,
                   initialSettings, isReady, splash, globalVault, pc, loadPc,
                   external>>

\* One of the three reset operations rejects; the store is left as it is.
resetOpRejects ==
    /\ \E o \in ResetOps :
        /\ resetPc[o] = "pending"
        /\ resetPc' = [resetPc EXCEPT ![o] = "failed"]
    /\ UNCHANGED <<config, stores, locals, vaultExists, initialSettings,
                   isReady, splash, globalVault, pc, loadPc, trace, external>>

\* Mutant: the loads start as soon as one reset operation has resolved.
resetJoinAfterFirst ==
    /\ pc = "reset"
    /\ \E o \in ResetOps : resetPc[o] = "done"
    /\ pc' = "loading"
    /\ loadPc' = StartLoads
    /\ UNCHANGED <<config, stores, locals, vaultExists, initialSettings,
                   isReady, splash, globalVault, resetPc, trace, external>>

\* The first Promise.all resolves: loadAssets goes on to the four loads.
resetJoin ==
    /\ pc = "reset"
    /\ PromiseAllResolved(resetPc)
    /\ pc' = "loading"
    /\ loadPc' = StartLoads
    /\ UNCHANGED <<config, stores, locals, vaultExists, initialSettings,
                   isReady, splash, globalVault, resetPc, trace, external>>

\* Mutant: a rejection cancels the reset operations still pending.
resetRejectsCancels ==
    /\ pc = "reset"
    /\ PromiseAllRejected(resetPc)
    /\ pc' = "failed"
    /\ resetPc' = [o \in ResetOps |->
                      IF resetPc[o] = "pending" THEN "cancelled" ELSE resetPc[o]]
    /\ UNCHANGED <<config, stores, locals, vaultExists, initialSettings,
                   isReady, splash, globalVault, loadPc, trace, external>>

\* The first Promise.all rejects: loadAssets and initialize reject.
resetRejects ==
    /\ pc = "reset"
    /\ PromiseAllRejected(resetPc)
    /\ pc' = "failed"
    /\ UNCHANGED <<config, stores, locals, vaultExists, initialSettings,
                   isReady, splash, globalVault, resetPc, loadPc, trace,
                   external>>

----------------------------------------------------------------------------
(* checkVault *)

checkVaultResolves ==
    /\ loadPc["checkVault"] = "doesVaultExist"
    /\ vaultExists' = vault
    /\ loadPc' = [loadPc EXCEPT !["checkVault"] = "done"]
    /\ trace' = Log("doesVaultExist", "checkVault", vault)
    /\ UNCHANGED <<config, stores, locals, initialSettings, isReady, splash,
                   globalVault, pc, resetPc, external>>

checkVaultRejects ==
    /\ loadPc["checkVault"] = "doesVaultExist"
    /\ loadPc' = [loadPc EXCEPT !["checkVault"] = "failed"]
    /\ UNCHANGED <<config, stores, locals, vaultExists, initialSettings,
                   isReady, splash, globalVault, pc, resetPc, trace, external>>

----------------------------------------------------------------------------
(* loadSettings *)

\* Mutant: the stored password is never forgotten.
AfterEnrollmentNoRemoval(areEnrolled) == "getPassword"

\* Mutant: the stored password is always forgotten.
AfterEnrollmentAlwaysRemoves(areEnrolled) == "removePassword"

\* Mutant: the condition is inverted.
AfterEnrollmentInverted(areEnrolled) ==
    IF areEnrolled THEN "removePassword" ELSE "getPassword"

\* if (!areBiometricsEnrolled) { await secureStorage.removePassword(); }
AfterEnrollment(areEnrolled) ==
    IF ~areEnrolled THEN "removePassword" ELSE "getPassword"

isEnrolledResolves ==
    /\ loadPc["loadSettings"] = "isEnrolledAsync"
    /\ areBiometricsEnrolled' = enrolled
    /\ loadPc' = [loadPc EXCEPT !["loadSettings"] = AfterEnrollment(enrolled)]
    /\ trace' = Log("isEnrolledAsync", "loadSettings", enrolled)
    /\ UNCHANGED <<config, stores, biometricUnlock, vaultExists,
                   initialSettings, isReady, splash, globalVault, pc, resetPc,
                   external>>

\* Mutant: forgetting the password clears the preferences as well.
removePasswordResolvesClearsStorage ==
    /\ loadPc["loadSettings"] = "removePassword"
    /\ password' = Absent
    /\ concealTokens' = Absent
    /\ loadPc' = [loadPc EXCEPT !["loadSettings"] = "getPassword"]
    /\ trace' = Log("removePassword", "loadSettings", TRUE)
    /\ UNCHANGED <<config, vault, locals, vaultExists, initialSettings,
                   isReady, splash, globalVault, pc, resetPc, external>>

\* await secureStorage.removePassword() resolves.
removePasswordResolves ==
    /\ loadPc["loadSettings"] = "removePassword"
    /\ password' = Absent
    /\ loadPc' = [loadPc EXCEPT !["loadSettings"] = "getPassword"]
    /\ trace' = Log("removePassword", "loadSettings", TRUE)
    /\ UNCHANGED <<config, vault, concealTokens, locals, vaultExists,
                   initialSettings, isReady, splash, globalVault, pc, resetPc,
                   external>>

\* Mutant: the settings are published field by field.
getPasswordResolvesPartial ==
    /\ loadPc["loadSettings"] = "getPassword"
    /\ biometricUnlock' = Boolean(password)
    /\ initialSettings' = [biometricUnlock |-> Boolean(password)]
    /\ loadPc' = [loadPc EXCEPT !["loadSettings"] = "getConcealTokens"]
    /\ trace' = Log("getPassword", "loadSettings", password)
    /\ UNCHANGED <<config, stores, areBiometricsEnrolled, vaultExists,
                   isReady, splash, globalVault, pc, resetPc, external>>

\* const biometricUnlock = Boolean(await secureStorage.getPassword());
getPasswordResolves ==
    /\ loadPc["loadSettings"] = "getPassword"
    /\ biometricUnlock' = Boolean(password)
    /\ loadPc' = [loadPc EXCEPT !["loadSettings"] = "getConcealTokens"]
    /\ trace' = Log("getPassword", "loadSettings", password)
    /\ UNCHANGED <<config, stores, areBiometricsEnrolled, vaultExists,
                   initialSettings, isReady, splash, globalVault, pc, resetPc,
                   external>>

\* Mutant: the loaded settings are built but never set.
getConcealTokensResolvesNoEmit ==
    /\ loadPc["loadSettings"] = "getConcealTokens"
    /\ loadPc' = [loadPc EXCEPT !["loadSettings"] = "done"]
    /\ trace' = Log("getConcealTokens", "loadSettings", concealTokens)
    /\ UNCHANGED <<config, stores, locals, vaultExists, initialSettings,
                   isReady, splash, globalVault, pc, resetPc, external>>

\* const concealTokens = Boolean(await storage.getConcealTokens());
\* setInitialSettings({ biometricUnlock, concealTokens });
getConcealTokensResolves ==
    /\ loadPc["loadSettings"] = "getConcealTokens"
    /\ initialSettings' = [biometricUnlock |-> biometricUnlock,
                           concealTokens |-> Boolean(concealTokens)]
    /\ loadPc' = [loadPc EXCEPT !["loadSettings"] = "done"]
    /\ trace' = Log("getConcealTokens", "loadSettings", concealTokens)
    /\ UNCHANGED <<config, stores, locals, vaultExists, isReady, splash,
                   globalVault, pc, resetPc, external>>

\* Any of the awaited calls of loadSettings rejects.
loadSettingsRejects ==
    /\ loadPc["loadSettings"] \in {"isEnrolledAsync", "removePassword",
                                   "getPassword", "getConcealTokens"}
    /\ loadPc' = [loadPc EXCEPT !["loadSettings"] = "failed"]
    /\ UNCHANGED <<config, stores, locals, vaultExists, initialSettings,
                   isReady, splash, globalVault, pc, resetPc, trace, external>>

----------------------------------------------------------------------------
(* loadImages and loadFonts *)

loadImagesResolves ==
    /\ loadPc["loadImages"] = "loadAsync"
    /\ loadPc' = [loadPc EXCEPT !["loadImages"] = "done"]
    /\ trace' = Log("Asset.loadAsync", "loadImages", TRUE)
    /\ UNCHANGED <<config, stores, locals, vaultExists, initialSettings,
                   isReady, splash, globalVault, pc, resetPc, external>>

loadImagesRejects ==
    /\ loadPc["loadImages"] = "loadAsync"
    /\ loadPc' = [loadPc EXCEPT !["loadImages"] = "failed"]
    /\ UNCHANGED <<config, stores, locals, vaultExists, initialSettings,
                   isReady, splash, globalVault, pc, resetPc, trace, external>>

loadFontsResolves ==
    /\ loadPc["loadFonts"] = "loadAsync"
    /\ loadPc' = [loadPc EXCEPT !["loadFonts"] = "done"]
    /\ trace' = Log("Font.loadAsync", "loadFonts", TRUE)
    /\ UNCHANGED <<config, stores, locals, vaultExists, initialSettings,
                   isReady, splash, globalVault, pc, resetPc, external>>

loadFontsRejects ==
    /\ loadPc["loadFonts"] = "loadAsync"
    /\ loadPc' = [loadPc EXCEPT !["loadFonts"] = "failed"]
    /\ UNCHANGED <<config, stores, locals, vaultExists, initialSettings,
                   isReady, splash, globalVault, pc, resetPc, trace, external>>

----------------------------------------------------------------------------
(* The join of the four loads and the rest of initialize *)

\* Mutant: setReady(true) is left out.
loadsJoinWithoutReady ==
    /\ pc = "loading"
    /\ PromiseAllResolved(loadPc)
    /\ pc' = "hideAsync"
    /\ UNCHANGED <<config, stores, locals, vaultExists, initialSettings,
                   isReady, splash, globalVault, resetPc, loadPc, trace,
                   external>>

\* The second Promise.all resolves; setReady(true); hideAsync() is called.
loadsJoin ==
    /\ pc = "loading"
    /\ PromiseAllResolved(loadPc)
    /\ isReady' = TRUE
    /\ pc' = "hideAsync"
    /\ UNCHANGED <<config, stores, locals, vaultExists, initialSettings,
                   splash, globalVault, resetPc, loadPc, trace, external>>

\* Mutant: a rejection cancels the loads still running.
loadsRejectCancels ==
    /\ pc = "loading"
    /\ PromiseAllRejected(loadPc)
    /\ pc' = "failed"
    /\ loadPc' = [l \in Loads |->
                     IF loadPc[l] \in {"done", "failed"}
                     THEN loadPc[l]
                     ELSE "cancelled"]
    /\ UNCHANGED <<config, stores, locals, vaultExists, initialSettings,
                   isReady, splash, globalVault, resetPc, trace, external>>

\* The second Promise.all rejects: loadAssets and initialize reject.
loadsReject ==
    /\ pc = "loading"
    /\ PromiseAllRejected(loadPc)
    /\ pc' = "failed"
    /\ UNCHANGED <<config, stores, locals, vaultExists, initialSettings,
                   isReady, splash, globalVault, resetPc, loadPc, trace,
                   external>>

\* await SplashScreen.hideAsync() resolves.
hideResolves ==
    /\ pc = "hideAsync"
    /\ splash' = "hidden"
    /\ pc' = "done"
    /\ UNCHANGED <<config, stores, locals, vaultExists, initialSettings,
                   isReady, globalVault, resetPc, loadPc, trace, external>>

\* Mutant: a failure of hideAsync() takes readiness back.
hideRejectsResetsReady ==
    /\ pc = "hideAsync"
    /\ pc' = "failed"
    /\ isReady' = FALSE
    /\ UNCHANGED <<config, stores, locals, vaultExists, initialSettings,
                   splash, globalVault, resetPc, loadPc, trace, external>>

\* await SplashScreen.hideAsync() rejects; initialize() rejects.
hideRejects ==
    /\ pc = "hideAsync"
    /\ pc' = "failed"
    /\ UNCHANGED <<config, stores, locals, vaultExists, initialSettings,
                   isReady, splash, globalVault, resetPc, loadPc, trace,
                   external>>

----------------------------------------------------------------------------
(* The render: what App returns for the current state *)

\* Mutant: the route follows the settings instead of the vault.
initialRouteNameFromSettings ==
    IF initialSettings # Null /\ initialSettings.biometricUnlock
    THEN "Authentication"
    ELSE "Welcome"

\* Mutant: the route is taken from the vault as it is now.
initialRouteNameLive == IF vault THEN "Authentication" ELSE "Welcome"

\* vaultExists ? 'Authentication' : 'Welcome'
initialRouteName == IF vaultExists THEN "Authentication" ELSE "Welcome"

\* Mutant: every screen is registered whatever globalState.vault is.
ScreensAll == PreVault \cup PostVault

\* Mutant: the post-vault screens are registered only while the vault exists.
ScreensWhileVaultExists == IF globalVault /\ vault THEN PostVault ELSE PreVault

\* The children of Stack.Navigator.
Screens == IF globalVault THEN PostVault ELSE PreVault

\* if (isReady) { return <...>; } return null;
App ==
    IF isReady
    THEN [settings |-> initialSettings,
          initialRouteName |-> initialRouteName,
          screens |-> Screens]
    ELSE Null

----------------------------------------------------------------------------
(* The screens, once rendered: the authentication flow raises             *)
(* globalState.vault, and the screens write the stores.                    *)

vaultUnlocked ==
    /\ App # Null
    /\ ~globalVault
    /\ globalVault' = TRUE
    /\ UNCHANGED <<config, stores, locals, vaultExists, initialSettings,
                   isReady, splash, pc, resetPc, loadPc, trace, external>>

screenWrites ==
    /\ App # Null
    /\ external < MaxExternal
    /\ external' = external + 1
    /\ \/ vault' = ~vault /\ UNCHANGED <<password, concealTokens>>
       \/ /\ password' \in ({Absent} \cup Credentials) \ {password}
          /\ UNCHANGED <<vault, concealTokens>>
       \/ /\ concealTokens' \in ({Absent} \cup Preferences) \ {concealTokens}
          /\ UNCHANGED <<vault, password>>
    /\ UNCHANGED <<config, locals, vaultExists, initialSettings, isReady,
                   splash, globalVault, pc, resetPc, loadPc, trace>>

----------------------------------------------------------------------------
Next ==
    \/ useEffect
    \/ preventAutoHideResolves
    \/ preventAutoHideRejects
    \/ deleteVaultResolves
    \/ resetRemovePasswordResolves
    \/ clearResolves
    \/ resetOpRejects
    \/ resetJoin
    \/ resetRejects
    \/ checkVaultResolves
    \/ checkVaultRejects
    \/ isEnrolledResolves
    \/ removePasswordResolves
    \/ getPasswordResolves
    \/ getConcealTokensResolves
    \/ loadSettingsRejects
    \/ loadImagesResolves
    \/ loadImagesRejects
    \/ loadFontsResolves
    \/ loadFontsRejects
    \/ loadsJoin
    \/ loadsReject
    \/ hideResolves
    \/ hideRejects
    \/ vaultUnlocked
    \/ screenWrites

Spec == Init /\ [][Next]_vars

(* Every collaborator call returns: a call that is awaited and has not     *)
(* rejected eventually resolves, and the continuation of a settled         *)
(* Promise.all eventually runs.                                            *)
FairSpec ==
    /\ Spec
    /\ WF_vars(useEffect)
    /\ WF_vars(preventAutoHideResolves)
    /\ WF_vars(deleteVaultResolves)
    /\ WF_vars(resetRemovePasswordResolves)
    /\ WF_vars(clearResolves)
    /\ WF_vars(resetJoin)
    /\ WF_vars(checkVaultResolves)
    /\ WF_vars(isEnrolledResolves)
    /\ WF_vars(removePasswordResolves)
    /\ WF_vars(getPasswordResolves)
    /\ WF_vars(getConcealTokensResolves)
    /\ WF_vars(loadImagesResolves)
    /\ WF_vars(loadFontsResolves)
    /\ WF_vars(loadsJoin)
    /\ WF_vars(hideResolves)

TypeOK ==
    /\ shouldReset \in BOOLEAN
    /\ vault \in BOOLEAN
    /\ password \in {Absent} \cup Credentials
    /\ concealTokens \in {Absent} \cup Preferences
    /\ enrolled \in BOOLEAN
    /\ vaultExists \in BOOLEAN
    /\ isReady \in BOOLEAN
    /\ splash \in {"auto", "held", "hidden"}
    /\ globalVault \in BOOLEAN
    /\ pc \in {"mount", "preventAutoHideAsync", "reset", "loading",
               "hideAsync", "done", "failed"}
    /\ external \in 0..MaxExternal

----------------------------------------------------------------------------
(* Properties *)

\* The calls of loadSettings that have resolved so far.
Reconciliation == trace["loadSettings"]

\* The enrollment query of this launch has returned `answer`.
EnrollmentAnswered(answer) ==
    /\ Len(Reconciliation) >= 1
    /\ Reconciliation[1].op = "isEnrolledAsync"
    /\ Reconciliation[1].ret = answer

\* loadSettings has resolved the call `op`.
Reconciled(op) == \E i \in 1..Len(Reconciliation) : Reconciliation[i].op = op

\* No screen has written a store since the bootstrap completed.
StoresAsBootstrapLeftThem == external = 0

\* C1: with the reset directive set, when the bootstrap has completed the
\* vault does not exist, no password is stored and no concealTokens
\* preference is stored, whatever the stores held when the process started.
C1_ResetLeavesNothing ==
    (shouldReset /\ isReady /\ StoresAsBootstrapLeftThem) =>
        /\ vault = FALSE
        /\ password = Absent
        /\ concealTokens = Absent

C1_Witness ==
    /\ shouldReset
    /\ isReady
    /\ StoresAsBootstrapLeftThem
    /\ prior.vault
    /\ prior.password # Absent
    /\ prior.concealTokens # Absent
    /\ Len(trace["loadAssets"]) = 3

\* C2: when the enrollment query has returned false, the password is removed
\* before its presence is read, and when loadSettings finishes no password
\* is stored and the emitted settings have biometricUnlock = false.
C2_UnenrolledForgetsPassword ==
    EnrollmentAnswered(FALSE) =>
        /\ \A i \in 1..Len(Reconciliation) :
              Reconciliation[i].op = "getPassword" =>
                  \E j \in 1..(i - 1) : Reconciliation[j].op = "removePassword"
        /\ (loadPc["loadSettings"] = "done" /\ StoresAsBootstrapLeftThem) =>
              /\ password = Absent
              /\ initialSettings # Null
              /\ initialSettings.biometricUnlock = FALSE

C2_Witness ==
    /\ EnrollmentAnswered(FALSE)
    /\ ~shouldReset
    /\ prior.password # Absent
    /\ loadPc["loadSettings"] = "done"
    /\ password = Absent

\* The password stored when loadSettings starts: the reset, when there is
\* one, has removed it by then.
PasswordAtReconciliation == IF shouldReset THEN Absent ELSE prior.password

\* C3: when the enrollment query has returned true and a password is stored
\* when loadSettings starts, loadSettings removes nothing, the stored password
\* stays what it was, and the emitted settings have biometricUnlock = true.
C3_EnrolledKeepsPassword ==
    /\ loadPc["loadSettings"] = "isEnrolledAsync" =>
          password = PasswordAtReconciliation
    /\ (EnrollmentAnswered(TRUE) /\ PasswordAtReconciliation # Absent) =>
          /\ ~Reconciled("removePassword")
          /\ StoresAsBootstrapLeftThem => password = PasswordAtReconciliation
          /\ loadPc["loadSettings"] = "done" =>
                /\ initialSettings # Null
                /\ initialSettings.biometricUnlock = TRUE

C3_Witness ==
    /\ EnrollmentAnswered(TRUE)
    /\ PasswordAtReconciliation # Absent
    /\ loadPc["loadSettings"] = "done"
    /\ password = prior.password
    /\ initialSettings.biometricUnlock = TRUE

\* C4: once ready, the initial route is Authentication exactly when
\* doesVaultExist returned true during the bootstrap and Welcome otherwise,
\* whatever the settings are.
C4_RouteFollowsVaultCheck ==
    isReady =>
        /\ Len(trace["checkVault"]) = 1
        /\ App.initialRouteName =
              IF trace["checkVault"][1].ret = TRUE
              THEN "Authentication"
              ELSE "Welcome"

C4_Witness ==
    /\ isReady
    /\ App.initialRouteName = "Authentication"
    /\ initialSettings.biometricUnlock = FALSE
    /\ initialSettings.concealTokens = TRUE

\* C5: readiness is true only when checkVault, loadSettings, loadImages and
\* loadFonts have all resolved; it is false while one of them is pending.
C5_ReadyOnlyAfterJoin ==
    isReady => \A l \in Loads : loadPc[l] = "done"

\* All but the last load have resolved and readiness is still false.
C5_Witness ==
    /\ ~isReady
    /\ loadPc["loadImages"] = "loadAsync"
    /\ \A l \in Loads \ {"loadImages"} : loadPc[l] = "done"

\* One of the four loads has rejected.
LoadFailed == \E l \in Loads : loadPc[l] = "failed"

\* C6: once one of the four loads has rejected, in every later state
\* readiness is false, App renders nothing (no route, no screen) and the
\* splash screen is not hidden.
C6_FailureNeverReady ==
    [](LoadFailed => [](~isReady /\ App = Null /\ splash # "hidden"))

\* loadImages has rejected, and the other three loads have resolved since.
C6_Witness ==
    /\ loadPc["loadImages"] = "failed"
    /\ \A l \in Loads \ {"loadImages"} : loadPc[l] = "done"
    /\ pc = "failed"
    /\ ~isReady
    /\ splash = "held"

\* C7: whenever the settings have been emitted with biometricUnlock = true,
\* the enrollment query of this launch returned true; and whenever the
\* query returned false, getPassword found no password.
C7_UnlockImpliesEnrolled ==
    /\ (initialSettings # Null /\ initialSettings.biometricUnlock = TRUE) =>
          EnrollmentAnswered(TRUE)
    /\ EnrollmentAnswered(FALSE) =>
          \A i \in 1..Len(Reconciliation) :
              Reconciliation[i].op = "getPassword" =>
                  Reconciliation[i].ret = Absent

C7_Witness ==
    /\ initialSettings # Null
    /\ initialSettings.biometricUnlock = TRUE
    /\ EnrollmentAnswered(TRUE)

\* The positions of initialize before setReady(true).
BeforeSetReady == {"mount", "preventAutoHideAsync", "reset", "loading"}

\* C8: readiness starts false; once true no step sets it back to false, and
\* initialize is never again at a position before setReady(true), so that
\* readiness is set at most once.
C8_ReadinessMonotonic ==
    /\ ~isReady
    /\ [][isReady => (isReady' /\ pc' \notin BeforeSetReady)]_vars

\* Readiness is true and hideAsync() has rejected afterwards.
C8_Witness ==
    /\ isReady
    /\ pc = "failed"

\* C9: once ready, the reachable screens are exactly Home, Sorting,
\* BarcodeScanner and Settings when globalState.vault is true and exactly
\* Welcome, AuthenticationSetup and Authentication when it is false.
C9_ScreensFollowVaultFlag ==
    isReady =>
        /\ globalVault =>
              App.screens = {"Home", "Sorting", "BarcodeScanner", "Settings"}
        /\ ~globalVault =>
              App.screens = {"Welcome", "AuthenticationSetup", "Authentication"}
        /\ \/ App.screens \cap {"Home", "Sorting", "BarcodeScanner",
                                "Settings"} = {}
           \/ App.screens \cap {"Welcome", "AuthenticationSetup",
                                "Authentication"} = {}

C9_Witness ==
    /\ isReady
    /\ globalVault
    /\ App.screens = {"Home", "Sorting", "BarcodeScanner", "Settings"}

\* C10: initialSettings is either null or a record with both
\* biometricUnlock and concealTokens, and it is not null only after both
\* getPassword and getConcealTokens have resolved.
C10_SettingsNeverPartial ==
    \/ initialSettings = Null
    \/ /\ DOMAIN initialSettings = {"biometricUnlock", "concealTokens"}
       /\ initialSettings.biometricUnlock \in BOOLEAN
       /\ initialSettings.concealTokens \in BOOLEAN
       /\ Reconciled("getPassword")
       /\ Reconciled("getConcealTokens")

\* The password has been read and the settings are not emitted yet.
C10_Witness ==
    /\ loadPc["loadSettings"] = "getConcealTokens"
    /\ biometricUnlock
    /\ initialSettings = Null

\* C11: with the reset directive set, no load has started before deleteVault,
\* removePassword and clear have all resolved, and neither doesVaultExist nor
\* getPassword returns what the stores held before the reset.
C11_ResetBeforeLoads ==
    shouldReset =>
        /\ (\E l \in Loads : loadPc[l] # "idle") =>
              /\ \A o \in ResetOps : resetPc[o] = "done"
              /\ Len(trace["loadAssets"]) = 3
        /\ \A i \in 1..Len(trace["checkVault"]) :
              trace["checkVault"][i].ret = FALSE
        /\ \A i \in 1..Len(Reconciliation) :
              Reconciliation[i].op = "getPassword" =>
                  Reconciliation[i].ret = Absent

C11_Witness ==
    /\ shouldReset
    /\ prior.vault
    /\ prior.password # Absent
    /\ enrolled
    /\ Len(trace["checkVault"]) = 1
    /\ Reconciled("getPassword")

\* C12: without the reset directive no reset operation is issued; the only
\* removal of the password is the one loadSettings makes after an enrollment
\* answer of false; the bootstrap leaves the vault and the preference alone.
C12_NoResetNoDeletion ==
    ~shouldReset =>
        /\ \A o \in ResetOps : resetPc[o] = "idle"
        /\ trace["loadAssets"] = << >>
        /\ Reconciled("removePassword") => EnrollmentAnswered(FALSE)
        /\ StoresAsBootstrapLeftThem =>
              /\ vault = prior.vault
              /\ concealTokens = prior.concealTokens
              /\ password # prior.password => Reconciled("removePassword")

C12_Witness ==
    /\ ~shouldReset
    /\ isReady
    /\ StoresAsBootstrapLeftThem
    /\ prior.vault
    /\ prior.concealTokens # Absent
    /\ vault
    /\ concealTokens # Absent

\* What the reset operation `o` does to its store.
ResetEffect(o) ==
    CASE o = "deleteVault" -> vault = FALSE
      [] o = "removePassword" -> password = Absent
      [] o = "clear" -> concealTokens = Absent

\* C13: when one reset operation has rejected, the other two are not
\* cancelled (a pending operation leaves "pending" only by settling itself,
\* not in the step in which initialize rejects), and what the resolved ones
\* did to their stores stays done.
C13_ResetSiblingsTakeEffect ==
    /\ [](PromiseAllRejected(resetPc) =>
            \A o \in ResetOps : resetPc[o] = "done" => ResetEffect(o))
    /\ [][\A o \in ResetOps :
            (resetPc[o] = "pending" /\ resetPc'[o] # "pending") =>
                /\ resetPc'[o] \in {"done", "failed"}
                /\ pc' = pc]_vars

\* deleteVault has rejected and initialize with it; removePassword and clear
\* have resolved all the same and have taken effect.
C13_Witness ==
    /\ resetPc["deleteVault"] = "failed"
    /\ resetPc["removePassword"] = "done"
    /\ resetPc["clear"] = "done"
    /\ pc = "failed"
    /\ prior.vault /\ vault
    /\ prior.password # Absent /\ password = Absent
    /\ prior.concealTokens # Absent /\ concealTokens = Absent

\* C14: no step sets globalState.vault back to false, and once the
\* post-vault screens are the ones registered, they stay the ones
\* registered.
C14_NoWayBackToPreVault ==
    [][/\ globalVault => globalVault'
       /\ (isReady /\ App.screens = {"Home", "Sorting", "BarcodeScanner",
                                     "Settings"}) =>
              (isReady' /\ App'.screens = {"Home", "Sorting", "BarcodeScanner",
                                           "Settings"})]_vars

\* The vault is unlocked and a screen has deleted the vault since.
C14_Witness ==
    /\ globalVault
    /\ external >= 1
    /\ ~vault
    /\ App.screens = {"Home", "Sorting", "BarcodeScanner", "Settings"}

C16_RouteDecidedOnce ==
    [][/\ vaultExists' # vaultExists =>
              /\ loadPc["checkVault"] = "doesVaultExist"
              /\ loadPc'["checkVault"] = "done"
       /\ loadPc["checkVault"] = "done" =>
              /\ loadPc'["checkVault"] = "done"
              /\ vaultExists' = vaultExists
              /\ initialRouteName' = initialRouteName]_vars

\* The vault has been deleted after checkVault saw it; the route stays.
C16_Witness ==
    /\ isReady
    /\ external >= 1
    /\ vaultExists
    /\ ~vault
    /\ App.initialRouteName = "Authentication"

\* What the bootstrap leaves in the stores, as a function of the directive,
\* the enrollment answer and what the stores held at the start.
ExpectedVault == IF shouldReset THEN FALSE ELSE prior.vault
ExpectedPassword ==
    IF shouldReset \/ ~enrolled THEN Absent ELSE prior.password
ExpectedConcealTokens == IF shouldReset THEN Absent ELSE prior.concealTokens

\* C17: when the bootstrap has completed, vaultExists, the settings, the
\* initial route and the stores are determined by the collaborators' answers
\* alone, so that every interleaving of the four loads ends in the same
\* state.
C17_InterleavingsAgree ==
    (isReady /\ StoresAsBootstrapLeftThem) =>
        /\ vaultExists = ExpectedVault
        /\ initialSettings =
              [biometricUnlock |-> ExpectedPassword # Absent,
               concealTokens |-> ExpectedConcealTokens # Absent]
        /\ App.initialRouteName =
              IF ExpectedVault THEN "Authentication" ELSE "Welcome"
        /\ vault = ExpectedVault
        /\ password = ExpectedPassword
        /\ concealTokens = ExpectedConcealTokens
        /\ \A l \in Loads : loadPc[l] = "done"

C17_Witness ==
    /\ isReady
    /\ StoresAsBootstrapLeftThem
    /\ ~shouldReset
    /\ ~enrolled
    /\ prior.vault
    /\ prior.password # Absent
    /\ prior.concealTokens # Absent

\* C18: whenever readiness is true, setInitialSettings and setVaultExists
\* have been called: the settings given to GlobalStateProvider are not null
\* and vaultExists is what doesVaultExist returned.
C18_ReadyMeansLoaded ==
    isReady =>
        /\ initialSettings # Null
        /\ App.settings # Null
        /\ Reconciled("getConcealTokens")
        /\ Len(trace["checkVault"]) = 1
        /\ vaultExists = trace["checkVault"][1].ret

C18_Witness ==
    /\ isReady
    /\ vaultExists
    /\ App.settings = [biometricUnlock |-> TRUE, concealTokens |-> TRUE]

\* The positions of a load that is running.
Running == {"doesVaultExist", "isEnrolledAsync", "removePassword",
            "getPassword", "getConcealTokens", "loadAsync"}

\* C19: a load that is running is not cancelled when another load has
\* rejected: it leaves its position only by its own call settling, never in
\* the step in which initialize rejects, and the removal of the password by
\* loadSettings can still resolve after initialize has rejected.
C19_LoadsNotCancelled ==
    /\ []((pc = "failed" /\ loadPc["loadSettings"] = "removePassword") =>
             ENABLED removePasswordResolves)
    /\ [][\A l \in Loads :
            (loadPc[l] \in Running /\ loadPc'[l] # loadPc[l]) =>
                /\ loadPc'[l] \in Running \cup {"done", "failed"}
                /\ pc' = pc]_vars

\* loadImages has rejected and initialize with it; loadSettings has removed
\* the password all the same.
C19_Witness ==
    /\ pc = "failed"
    /\ loadPc["loadImages"] = "failed"
    /\ ~isReady
    /\ ~shouldReset
    /\ prior.password # Absent
    /\ EnrollmentAnswered(FALSE)
    /\ Reconciled("removePassword")
    /\ password = Absent

\* A collaborator call made by the bootstrap has rejected.
CallRejected ==
    \/ pc = "failed"
    \/ PromiseAllRejected(resetPc)
    \/ PromiseAllRejected(loadPc)

\* C20: when every collaborator call returns and none rejects, readiness
\* eventually becomes true and the splash screen is hidden, not before
\* readiness; and readiness is false as long as one of the four loads has
\* not completed.
C20_BootstrapCompletes ==
    /\ <>(CallRejected \/ (isReady /\ splash = "hidden"))
    /\ [](splash = "hidden" => isReady)
    /\ [](\A l \in Loads : loadPc[l] # "done" => ~isReady)

\* The reset was made, every call resolved, the splash screen is hidden.
C20_Witness ==
    /\ shouldReset
    /\ ~CallRejected
    /\ isReady
    /\ splash = "hidden"
    /\ pc = "done"

====
